---- MODULE Spec2Model ----
(***************************************************************************)
(* Model of api/index.py: a Flask blog whose add, edit and delete routes   *)
(* are gated by a shared secret.  The persisted state is the two tables    *)
(* Post and PostMedia; every request is handled sequentially and its       *)
(* writes are committed or discarded as one transaction.                   *)
(*                                                                         *)
(* Text (secret, title, content, file names) is a sequence of one-letter   *)
(* strings, so that strip(), rsplit() and lower() are computed.            *)
(***************************************************************************)
EXTENDS Integers, Sequences, FiniteSets, TLC

\* ---------------------------------------------------------------- bounds
MaxPostId == 2
MaxMediaId == 2
MaxFiles == 2

PostIds == 1..MaxPostId
MediaIds == 1..MaxMediaId

\* ------------------------------------------------------------ text values
\* Python's None: the value of a form field that was not submitted.
None == <<"None">>

SECRET_KEY == <<"m", "o", "o">>

\* Secrets a client may submit besides leaving the field out.
SecretInputs == {<<"m", "o", "o">>, <<"M", "o", "o">>}
TitleInputs == {<<>>, <<"a">>, <<"b">>}
ContentInputs == {<<" ">>, <<"x">>}

\* File names a client may attach; <<>> is the empty file input of a form
\* submitted without choosing a file.
FileNames ==
    { <<>>,
      <<"a", ".", "p", "n", "g">>,
      <<"B", ".", "J", "P", "G">>,
      <<"c", ".", "e", "x", "e">>,
      <<"p", "n", "g">> }

UpperChars == <<"A", "B", "C", "D", "E", "F", "G", "H", "I", "J", "K", "L", "M",
                "N", "O", "P", "Q", "R", "S", "T", "U", "V", "W", "X", "Y", "Z">>
LowerChars == <<"a", "b", "c", "d", "e", "f", "g", "h", "i", "j", "k", "l", "m",
                "n", "o", "p", "q", "r", "s", "t", "u", "v", "w", "x", "y", "z">>

\* str.lower() on one character and on a text.
lower_char(c) ==
    IF \E i \in 1..Len(UpperChars) : UpperChars[i] = c
    THEN LowerChars[CHOOSE i \in 1..Len(UpperChars) : UpperChars[i] = c]
    ELSE c

lower(s) == [i \in 1..Len(s) |-> lower_char(s[i])]

\* str.strip(): drops leading and trailing blanks.
RECURSIVE strip(_)
strip(s) ==
    IF s = <<>> THEN s
    ELSE IF Head(s) = " " THEN strip(Tail(s))
    ELSE IF s[Len(s)] = " " THEN strip(SubSeq(s, 1, Len(s) - 1))
    ELSE s

\* filename.rsplit('.', 1)[1]: the text after the last dot (a dot is present).
rsplit_ext(filename) ==
    LET last == CHOOSE i \in 1..Len(filename) :
                   /\ filename[i] = "."
                   /\ \A j \in (i + 1)..Len(filename) : filename[j] # "."
    IN SubSeq(filename, last + 1, Len(filename))

ALLOWED_EXTENSIONS ==
    { <<"p", "n", "g">>, <<"j", "p", "g">>, <<"j", "p", "e", "g">>,
      <<"g", "i", "f">>, <<"m", "p", "4">>, <<"w", "e", "b", "m">> }

allowed_file_case_sensitive(filename) ==
    /\ \E i \in 1..Len(filename) : filename[i] = "."
    /\ rsplit_ext(filename) \in ALLOWED_EXTENSIONS

allowed_file(filename) ==
    /\ \E i \in 1..Len(filename) : filename[i] = "."
    /\ lower(rsplit_ext(filename)) \in ALLOWED_EXTENSIONS

\* --------------------------------------------------------------- requests
FormFields == {"secret_key", "title", "content"}

FieldInputs(name) ==
    CASE name = "secret_key" -> SecretInputs
      [] name = "title" -> TitleInputs
      [] name = "content" -> ContentInputs

\* request.form: any subset of the fields, each with one of its values.
Forms ==
    UNION { { f \in [S -> SecretInputs \cup TitleInputs \cup ContentInputs] :
                \A n \in S : f[n] \in FieldInputs(n) } : S \in SUBSET FormFields }

EmptyForm == [n \in {} |-> <<>>]

\* request.files.getlist('media')
FileLists == UNION { [1..n -> FileNames] : n \in 0..MaxFiles }

\* request.form.get(name)
form_get(form, name) == IF name \in DOMAIN form THEN form[name] ELSE None

\* ------------------------------------------------------------------ state
VARIABLES
    posts,   \* table Post: id -> [title, content], for the ids that exist
    media,   \* table PostMedia: set of [id, post_id, media_url]
    pre,     \* both tables as they were when the last request arrived
    req,     \* the last request
    out      \* what the handler of the last request did and answered

vars == <<posts, media, pre, req, out>>

NoPosts == [i \in {} |-> [title |-> <<>>, content |-> <<>>]]

Max(S) == IF S = {} THEN 0 ELSE CHOOSE m \in S : \A n \in S : n <= m

\* Rows of a post, and the media URLs of a set of rows in id order.
media_of(rows, post_id) == { m \in rows : m.post_id = post_id }

RECURSIVE urls_by_id(_)
urls_by_id(rows) ==
    IF rows = {} THEN <<>>
    ELSE LET first == CHOOSE m \in rows : \A n \in rows : m.id <= n.id
         IN <<first.media_url>> \o urls_by_id(rows \ {first})

\* ------------------------------------------------------------ Access Gate
check_secret_key_any(form) == form_get(form, "secret_key") # None

check_secret_key(form) == form_get(form, "secret_key") = SECRET_KEY

\* ------------------------------------------------------- Input Validation
\* PostForm(): a field's data is the submitted value; a field that was not
\* submitted keeps the value populated from obj (None when there is no obj).
NoObj == [title |-> None, content |-> None]

PostForm(form, obj) ==
    [ title |-> IF "title" \in DOMAIN form THEN form["title"] ELSE obj.title,
      content |-> IF "content" \in DOMAIN form THEN form["content"] ELSE obj.content ]

\* DataRequired: the field's data is truthy and, stripped, still non-empty.
DataRequired(data) == data # None /\ data # <<>> /\ strip(data) # <<>>

validate_on_submit(form) == DataRequired(form.title) /\ DataRequired(form.content)

\* ------------------------------------------------------------ Media Store
\* The URL the store returns for a file; it is derived from the file name.
upload_url(filename) == <<"url", filename>>

\* ------------------------------------------------------------- ORM session
\* db.session.add(PostMedia(media_url=..., post=...)): a row with a fresh id.
PostMedia_unowned(rows, post_id, media_url) ==
    rows \cup { [id |-> Max({m.id : m \in rows}) + 1, post_id |-> 0,
                 media_url |-> media_url] }

PostMedia(rows, post_id, media_url) ==
    rows \cup { [id |-> Max({m.id : m \in rows}) + 1, post_id |-> post_id,
                 media_url |-> media_url] }

\* PostMedia.query.filter_by(post_id=post.id).delete()
delete_media_keep(rows, post_id) == rows

delete_media(rows, post_id) == { m \in rows : m.post_id # post_id }

\* db.session.delete(post), with the relationship's cascade to its media.
session_delete_no_cascade(db, post_id) ==
    [ posts |-> [i \in DOMAIN db.posts \ {post_id} |-> db.posts[i]],
      media |-> db.media ]

session_delete_media_only(db, post_id) ==
    [ posts |-> db.posts,
      media |-> { m \in db.media : m.post_id # post_id } ]

session_delete(db, post_id) ==
    [ posts |-> [i \in DOMAIN db.posts \ {post_id} |-> db.posts[i]],
      media |-> { m \in db.media : m.post_id # post_id } ]

\* Post.query.get_or_404(post_id) finds the post.
get_or_404(db, post_id) == post_id \in DOMAIN db.posts

\* The loop over the attached files, from file i on: each allowed file is
\* uploaded, and a row is added for each upload that returned a URL.  log is
\* the sequence of the calls made to the Media Store.
RECURSIVE media_loop(_, _, _, _, _, _)
media_loop(files, up, i, post_id, rows, log) ==
    IF i > Len(files) THEN [media |-> rows, log |-> log]
    ELSE IF files[i] # <<>> /\ allowed_file(files[i])
         THEN IF up[i]
              THEN media_loop(files, up, i + 1, post_id,
                              PostMedia(rows, post_id, upload_url(files[i])),
                              Append(log, [file |-> files[i], ok |-> TRUE]))
              ELSE media_loop(files, up, i + 1, post_id, rows,
                              Append(log, [file |-> files[i], ok |-> FALSE]))
         ELSE media_loop(files, up, i + 1, post_id, rows, log)

\* any(media_file.filename for media_file in media_files)
has_new_files_always(files) == TRUE

has_new_files(files) == \E i \in 1..Len(files) : files[i] # <<>>

\* -------------------------------------------------------------- responses
secret_prompt_bare(action, post_id) ==
    [template |-> "secret_key.html", action |-> action, post_id |-> 0]

secret_prompt(action, post_id) ==
    [template |-> "secret_key.html", action |-> action, post_id |-> post_id]

page(template, post_id) ==
    [template |-> template, action |-> "", post_id |-> post_id]

redirect_index == [template |-> "redirect:index", action |-> "", post_id |-> 0]

NoList == <<>>

\* What a handler returns: the tables after it, the steps it took, the calls
\* it made to the Media Store, the post it wrote, and its response.
Answer(db, steps, log, target, resp) ==
    [db |-> db, steps |-> steps, log |-> log, target |-> target, resp |-> resp,
     listed |-> NoList]

\* --------------------------------------------------------------- handlers
\* A handler takes the tables db, the request r and what the environment
\* decides during the request: env.new_id (the id the database generates for
\* a new post), env.up (per attached file, whether its upload succeeds) and
\* env.db_fail (whether the database rejects the transaction: a constraint
\* violation or a lost connection raised by the flush or the commit).  The
\* steps of a handler are recorded in the order the code takes them.

\* index(): GET /
index(db) ==
    [ db |-> db, steps |-> <<"query.all">>, log |-> <<>>, target |-> 0,
      resp |-> page("index.html", 0),
      listed |-> [ i \in DOMAIN db.posts |->
                     [ title |-> db.posts[i].title,
                       content |-> db.posts[i].content,
                       media |-> urls_by_id(media_of(db.media, i)) ] ] ]

\* add_post(): GET and POST /add
add_post(db, r, env) ==
    IF r.method = "POST"
    THEN IF ~check_secret_key(r.form)
         THEN Answer(db, <<"secret_denied">>, <<>>, 0, secret_prompt("add", 0))
         ELSE LET form == PostForm(r.form, NoObj) IN
              IF validate_on_submit(form)
              THEN LET new_post == [title |-> form.title, content |-> form.content]
                       loop == media_loop(r.files, env.up, 1, env.new_id, db.media, <<>>)
                       staged == [ posts |-> (env.new_id :> new_post) @@ db.posts,
                                   media |-> loop.media ]
                   IN IF env.db_fail
                      THEN Answer(db, <<"secret_ok", "validate_ok", "session.add",
                                        "commit_failed", "rollback", "flash_error">>,
                                  loop.log, env.new_id, page("add_post.html", 0))
                      ELSE Answer(staged, <<"secret_ok", "validate_ok", "session.add",
                                            "commit", "flash_success">>,
                                  loop.log, env.new_id, redirect_index)
              ELSE Answer(db, <<"secret_ok", "validate_failed", "flash_error">>,
                          <<>>, 0, page("add_post.html", 0))
    ELSE Answer(db, <<>>, <<>>, 0, page("add_post.html", 0))

\* edit_post(post_id): GET and POST /edit/<post_id>
edit_post(db, r, env) ==
    IF ~get_or_404(db, r.post_id)
    THEN Answer(db, <<"not_found", "flash_error">>, <<>>, 0, redirect_index)
    ELSE LET post == db.posts[r.post_id]
             form == PostForm(r.form, post)
         IN
         IF r.method = "POST"
         THEN IF ~check_secret_key(r.form)
              THEN Answer(db, <<"found", "secret_denied">>, <<>>, 0,
                          secret_prompt("edit", r.post_id))
              ELSE IF validate_on_submit(form)
                   THEN LET updated == [title |-> form.title, content |-> form.content]
                            replace == has_new_files(r.files)
                            loop == IF replace
                                    THEN media_loop(r.files, env.up, 1, r.post_id,
                                                    delete_media(db.media, r.post_id), <<>>)
                                    ELSE [media |-> db.media, log |-> <<>>]
                            staged == [ posts |-> [db.posts EXCEPT ![r.post_id] = updated],
                                        media |-> loop.media ]
                        IN IF env.db_fail
                           THEN Answer(db, <<"found", "secret_ok", "validate_ok", "update",
                                             "commit_failed", "rollback", "flash_error">>,
                                       loop.log, r.post_id,
                                       page("edit_post.html", r.post_id))
                           ELSE Answer(staged, <<"found", "secret_ok", "validate_ok",
                                                 "update", "commit", "flash_success">>,
                                       loop.log, r.post_id, redirect_index)
                   ELSE Answer(db, <<"found", "secret_ok", "validate_failed",
                                     "flash_error">>,
                               <<>>, 0, page("edit_post.html", r.post_id))
         ELSE Answer(db, <<"found">>, <<>>, 0, page("edit_post.html", r.post_id))

\* delete_post(post_id): GET and POST /delete/<post_id>
delete_post(db, r, env) ==
    IF ~get_or_404(db, r.post_id)
    THEN Answer(db, <<"not_found", "flash_error">>, <<>>, 0, redirect_index)
    ELSE IF r.method = "POST"
         THEN IF ~check_secret_key(r.form)
              THEN Answer(db, <<"found", "secret_denied">>, <<>>, 0,
                          secret_prompt("delete", r.post_id))
              ELSE IF env.db_fail
                   THEN Answer(db, <<"found", "secret_ok", "session.delete",
                                     "commit_failed", "flash_error">>,
                               <<>>, r.post_id, redirect_index)
                   ELSE Answer(session_delete(db, r.post_id),
                               <<"found", "secret_ok", "session.delete", "commit",
                                 "flash_success">>,
                               <<>>, r.post_id, redirect_index)
         ELSE Answer(db, <<"found">>, <<>>, 0, secret_prompt("delete", r.post_id))

\* ---------------------------------------------------------------- actions
DB == [posts |-> posts, media |-> media]

Request(route, method, post_id, form, files) ==
    [route |-> route, method |-> method, post_id |-> post_id, form |-> form,
     files |-> files]

NoRequest == Request("none", "", 0, EmptyForm, <<>>)

NoAnswer ==
    [steps |-> <<>>, log |-> <<>>, target |-> 0, resp |-> page("", 0),
     listed |-> NoList]

Idle == req = NoRequest

\* The server handles one request at a time.  A request is taken when the
\* server is idle and handled as one step: the tables become what the handler
\* committed, and the request and the handler's answer are recorded.
\* Ids are bounded: a request that would need a PostMedia id above MaxMediaId
\* is not taken, and an add POST is taken only while a Post id is free.
Handle(r, a) ==
    /\ \A m \in a.db.media : m.id \in MediaIds
    /\ posts' = a.db.posts
    /\ media' = a.db.media
    /\ pre' = DB
    /\ req' = r
    /\ out' = [steps |-> a.steps, log |-> a.log, target |-> a.target,
               resp |-> a.resp, listed |-> a.listed]

\* The response is sent and the request is over: the server is idle again.
Respond ==
    /\ req # NoRequest
    /\ req' = NoRequest
    /\ out' = NoAnswer
    /\ pre' = DB
    /\ UNCHANGED <<posts, media>>

NoEnv == [new_id |-> 0, up |-> <<>>, db_fail |-> FALSE]

Init ==
    /\ posts = NoPosts
    /\ media = {}
    /\ pre = [posts |-> NoPosts, media |-> {}]
    /\ req = NoRequest
    /\ out = NoAnswer

Index ==
    /\ Idle
    /\ Handle(Request("index", "GET", 0, EmptyForm, <<>>), index(DB))

AddGet ==
    /\ Idle
    /\ LET r == Request("add", "GET", 0, EmptyForm, <<>>)
       IN Handle(r, add_post(DB, r, NoEnv))

AddPost ==
    /\ Idle
    /\ \E form \in Forms, files \in FileLists, new_id \in PostIds \ DOMAIN posts,
          db_fail \in BOOLEAN :
         \E up \in [1..Len(files) -> BOOLEAN] :
           LET r == Request("add", "POST", 0, form, files)
           IN Handle(r, add_post(DB, r, [new_id |-> new_id, up |-> up,
                                         db_fail |-> db_fail]))

EditGet ==
    /\ Idle
    /\ \E post_id \in PostIds :
           LET r == Request("edit", "GET", post_id, EmptyForm, <<>>)
           IN Handle(r, edit_post(DB, r, NoEnv))

EditPost ==
    /\ Idle
    /\ \E post_id \in PostIds, form \in Forms, files \in FileLists, db_fail \in BOOLEAN :
         \E up \in [1..Len(files) -> BOOLEAN] :
           LET r == Request("edit", "POST", post_id, form, files)
           IN Handle(r, edit_post(DB, r, [new_id |-> 0, up |-> up,
                                          db_fail |-> db_fail]))

DeleteGet ==
    /\ Idle
    /\ \E post_id \in PostIds :
           LET r == Request("delete", "GET", post_id, EmptyForm, <<>>)
           IN Handle(r, delete_post(DB, r, NoEnv))

DeletePost ==
    /\ Idle
    /\ \E post_id \in PostIds, db_fail \in BOOLEAN :
         \E form \in { f \in Forms : DOMAIN f \subseteq {"secret_key"} } :
           LET r == Request("delete", "POST", post_id, form, <<>>)
           IN Handle(r, delete_post(DB, r, [new_id |-> 0, up |-> <<>>,
                                            db_fail |-> db_fail]))

Next ==
    \/ Index
    \/ AddGet
    \/ AddPost
    \/ EditGet
    \/ EditPost
    \/ DeleteGet
    \/ DeletePost
    \/ Respond

Spec == Init /\ [][Next]_vars

\* ------------------------------------------------------------- properties
\* What the last request was and what its handler did, read from the state.
Step(name) == \E i \in 1..Len(out.steps) : out.steps[i] = name
StepAt(name) == CHOOSE i \in 1..Len(out.steps) : out.steps[i] = name

IsPost == req.method = "POST"
Mutating == req.route \in {"add", "edit", "delete"}

SecretCorrect ==
    /\ "secret_key" \in DOMAIN req.form
    /\ req.form["secret_key"] = <<"m", "o", "o">>

Unchanged == posts = pre.posts /\ media = pre.media
Committed == Step("commit")
TargetExisted == req.post_id \in DOMAIN pre.posts

\* The attached files by name: those of the allow-list, the rest.
AllowedNames == { <<"a", ".", "p", "n", "g">>, <<"B", ".", "J", "P", "G">> }
IsAllowedName(f) == f \in AllowedNames
NamedFile == \E i \in 1..Len(req.files) : req.files[i] # <<>>

\* The Media Store's calls of the request: the files it was given, and the
\* URLs it returned.
CallOk(c) == c.ok
StoreFiles == [i \in 1..Len(out.log) |-> out.log[i].file]
StoreUrls ==
    LET ok == SelectSeq(out.log, CallOk)
    IN [i \in 1..Len(ok) |-> <<"url", ok[i].file>>]

TargetUrls == urls_by_id(media_of(media, out.target))

Submitted(name) == IF name \in DOMAIN req.form THEN req.form[name] ELSE None
Blank(name) == Submitted(name) \in {None, <<>>}
HasText(name) == Submitted(name) \notin {None, <<>>, <<" ">>}

\* C1: an add, edit or delete POST whose secret is missing or wrong leaves
\* the Post and PostMedia tables exactly as they were, whatever else it
\* carries.
C1_DeniedLeavesTables ==
    (Mutating /\ IsPost /\ ~SecretCorrect) => Unchanged

C1_Witness ==
    /\ req.route = "edit" /\ IsPost /\ TargetExisted
    /\ Submitted("secret_key") = <<"M", "o", "o">>
    /\ Submitted("title") = <<"b">> /\ Submitted("content") = <<"x">>
    /\ pre.posts[req.post_id].title = <<"a">>
    /\ req.files = << <<"a", ".", "p", "n", "g">> >>
    /\ media_of(pre.media, req.post_id) # {}
    /\ Unchanged

\* C2: in every reachable state each PostMedia row belongs to a Post that
\* exists.
C2_MediaOwned ==
    \A m \in media : m.post_id \in DOMAIN posts

C2_Witness ==
    /\ req.route = "delete" /\ Committed
    /\ media_of(pre.media, req.post_id) # {}
    /\ media # {}

\* C3 (as claimed): an add or edit POST with the correct secret whose title
\* or content is absent or empty does not pass validation and changes
\* neither table, and no stored post has an empty title or content.
C3_BlankFieldRejected ==
    /\ (req.route \in {"add", "edit"} /\ IsPost /\ SecretCorrect
          /\ (Blank("title") \/ Blank("content")))
       => (Unchanged /\ ~Step("validate_ok"))
    /\ \A i \in DOMAIN posts : posts[i].title # <<>> /\ posts[i].content # <<>>

\* C4: a committed delete leaves neither the post nor any of its media; an
\* edit or delete request (GET or POST) for an id that has no post answers
\* NotFound, a redirect to the list, and changes nothing; an id without a
\* post gets one only by an add.
C4_DeletedIsGone ==
    /\ (req.route = "delete" /\ Committed)
       => (req.post_id \notin DOMAIN posts /\ media_of(media, req.post_id) = {})
    /\ (req.route \in {"edit", "delete"} /\ ~TargetExisted)
       => (out.resp = redirect_index /\ Step("not_found") /\ Unchanged)
    /\ \A i \in DOMAIN posts \ DOMAIN pre.posts : req.route = "add" /\ Committed

C4_Witness ==
    /\ req.route = "delete" /\ Committed
    /\ TargetExisted
    /\ media_of(pre.media, req.post_id) # {}
    /\ DOMAIN posts # {}

\* C5 (as claimed): a committed edit leaves its post with exactly the M rows
\* of the M files of the request that were accepted and uploaded, M >= 0,
\* none of the prior rows among them.
C5_EditLeavesExactlyM ==
    (req.route = "edit" /\ Committed)
       => /\ TargetUrls = StoreUrls
          /\ Cardinality(media_of(media, req.post_id)) = Len(StoreUrls)

\* C5 (amended): a committed edit that carries at least one file with a
\* non-empty name removes all prior rows of its post and leaves exactly the
\* M rows of the files that were accepted and uploaded (M = 0 when every such
\* file was rejected or failed to upload).
C5_EditWithFilesLeavesExactlyM ==
    (req.route = "edit" /\ Committed /\ NamedFile)
       => /\ TargetUrls = StoreUrls
          /\ Cardinality(media_of(media, req.post_id)) = Len(StoreUrls)

C5_Witness ==
    /\ req.route = "edit" /\ Committed
    /\ req.files = << <<"B", ".", "J", "P", "G">> >>
    /\ urls_by_id(media_of(pre.media, req.post_id))
         = << <<"url", <<"a", ".", "p", "n", "g">>>> >>
    /\ TargetUrls = << <<"url", <<"B", ".", "J", "P", "G">>>> >>

\* C6: a committed add creates one post, with the submitted title and
\* content, that owns exactly one row per URL the Media Store returned for
\* the request's files, in that order (none when nothing was uploaded), and
\* changes no other post or row; the list shows every stored post with its
\* title, content and media URLs.
C6_AddCreatesPostWithMedia ==
    /\ (req.route = "add" /\ Committed)
       => /\ DOMAIN posts = DOMAIN pre.posts \cup {out.target}
          /\ out.target \notin DOMAIN pre.posts
          /\ posts[out.target] = [title |-> Submitted("title"),
                                  content |-> Submitted("content")]
          /\ \A i \in DOMAIN pre.posts : posts[i] = pre.posts[i]
          /\ TargetUrls = StoreUrls
          /\ Cardinality(media_of(media, out.target)) = Len(StoreUrls)
          /\ media \ media_of(media, out.target) = pre.media
    /\ req.route = "index"
       => /\ DOMAIN out.listed = DOMAIN posts
          /\ \A i \in DOMAIN posts :
               /\ out.listed[i].title = posts[i].title
               /\ out.listed[i].content = posts[i].content
               /\ out.listed[i].media = urls_by_id(media_of(media, i))

C6_Witness ==
    /\ req.route = "add" /\ Committed
    /\ req.files = << <<"a", ".", "p", "n", "g">>, <<"B", ".", "J", "P", "G">> >>
    /\ TargetUrls = << <<"url", <<"a", ".", "p", "n", "g">>>>,
                       <<"url", <<"B", ".", "J", "P", "G">>>> >>
    /\ posts[out.target].title = <<"b">>

\* C7: in a committed add or edit the files given to the Media Store are
\* exactly the attached files whose extension is in the allow-list, compared
\* without regard to case; the rows written are exactly those of the uploads
\* that returned a URL; and a rejected file or a failed upload does not stop
\* the commit of the text fields and of the other files' rows.
C7_OnlyAllowedUploadedFilesGetRows ==
    /\ Committed /\ req.route \in {"add", "edit"} /\ (req.route = "add" \/ NamedFile)
       => /\ StoreFiles = SelectSeq(req.files, IsAllowedName)
          /\ TargetUrls = StoreUrls
    /\ (req.route \in {"add", "edit"} /\ IsPost /\ SecretCorrect
          /\ (req.route = "edit" => TargetExisted)
          /\ HasText("title") /\ HasText("content")
          /\ ~Step("commit_failed"))
       => /\ Committed
          /\ posts[out.target] = [title |-> Submitted("title"),
                                  content |-> Submitted("content")]

C7_Witness ==
    /\ req.route = "add" /\ Committed
    /\ req.files = << <<"c", ".", "e", "x", "e">>, <<"B", ".", "J", "P", "G">> >>
    /\ TargetUrls = << <<"url", <<"B", ".", "J", "P", "G">>>> >>

\* C8 (as claimed): when the database rejects the writes of an add, edit or
\* delete, none of them is kept and the handler rolls the session back
\* before it reports the error.
C8_FailedWriteRolledBack ==
    Step("commit_failed")
       => /\ Unchanged
          /\ Step("rollback")
          /\ StepAt("commit_failed") < StepAt("rollback")
          /\ StepAt("rollback") < StepAt("flash_error")

\* C9 (as claimed): validation and the writes happen only after the secret
\* check of the same request passed, and a GET of delete or any add, edit or
\* delete POST whose secret is missing or wrong answers the secret prompt
\* with the action and the target id of the request.
C9_DeniedGetsSecretPrompt ==
    /\ (Step("validate_ok") \/ Step("validate_failed") \/ Step("commit")
          \/ Step("commit_failed") \/ ~Unchanged)
       => (IsPost /\ SecretCorrect /\ Step("secret_ok")
             /\ \A s \in {"validate_ok", "validate_failed", "commit", "commit_failed"} :
                  Step(s) => StepAt("secret_ok") < StepAt(s))
    /\ (Mutating /\ ((IsPost /\ ~SecretCorrect) \/ (req.route = "delete" /\ ~IsPost)))
       => out.resp = [template |-> "secret_key.html", action |-> req.route,
                      post_id |-> req.post_id]

\* C9 (amended): the same, for an add and for an edit or delete whose target
\* post exists; an edit or delete of an id that has no post is answered
\* NotFound (a redirect to the list) before the secret is looked at.
C9_DeniedGetsSecretPromptIfFound ==
    /\ (Step("validate_ok") \/ Step("validate_failed") \/ Step("commit")
          \/ Step("commit_failed") \/ ~Unchanged)
       => (IsPost /\ SecretCorrect /\ Step("secret_ok")
             /\ \A s \in {"validate_ok", "validate_failed", "commit", "commit_failed"} :
                  Step(s) => StepAt("secret_ok") < StepAt(s))
    /\ (Mutating /\ (req.route = "add" \/ TargetExisted)
          /\ ((IsPost /\ ~SecretCorrect) \/ (req.route = "delete" /\ ~IsPost)))
       => out.resp = [template |-> "secret_key.html", action |-> req.route,
                      post_id |-> req.post_id]
    /\ (req.route \in {"edit", "delete"} /\ ~TargetExisted)
       => (out.resp = redirect_index /\ ~Step("secret_ok") /\ ~Step("secret_denied"))

C9_Witness ==
    /\ req.route = "delete" /\ IsPost /\ TargetExisted
    /\ Submitted("secret_key") = None
    /\ req.post_id = 2
    /\ out.resp.template = "secret_key.html"

\* C10: a committed edit that carries no file with a non-empty name leaves
\* the rows of its post, every other post and every other row as they were.
C10_EditWithoutFilesKeepsMedia ==
    (req.route = "edit" /\ Committed /\ ~NamedFile)
       => /\ media = pre.media
          /\ DOMAIN posts = DOMAIN pre.posts
          /\ \A i \in DOMAIN posts \ {req.post_id} : posts[i] = pre.posts[i]

C10_Witness ==
    /\ req.route = "edit" /\ Committed
    /\ req.files = << <<>> >>
    /\ media_of(pre.media, req.post_id) # {}
    /\ pre.posts[req.post_id].title = <<"a">>
    /\ posts[req.post_id].title = <<"b">>
    /\ media = pre.media

====
